---- MODULE Spec2Model ----
(***************************************************************************)
(* The chat assistant of the Dynamic Resume Analyzer: the useChatLogic     *)
(* hook (messages, input, loading, getBotReply, send) of Chatbot.js and    *)
(* the part of App.js that mounts, hides and unmounts the Chatbot.         *)
(*                                                                         *)
(* A text is a sequence of characters.  The three fixed texts of the       *)
(* program (greeting, fallback, typing placeholder) are one-token          *)
(* sequences: the program only ever compares them for equality.            *)
(***************************************************************************)
EXTENDS FiniteSets, Integers, Sequences, TLC

VARIABLES
    isLoggedIn,     \* App: authData.isLoggedIn
    showChatbot,    \* App: showChatbot
    resumeContext,  \* App: resumeContext
    inst,           \* number of the Chatbot mount (each mount has fresh hook state)
    messages,       \* useChatLogic: messages of the mounted Chatbot
    input,          \* useChatLogic: input
    loading,        \* useChatLogic: loading
    pending,        \* the getBotReply calls that have not settled yet
    posts,          \* number of fetch calls issued so far
    nreq,           \* number of getBotReply calls made so far
    apiKey,         \* GEMINI_API_KEY of the build
    held,           \* a rendered version of send that a caller has kept
    ev,             \* the last call made on the program
    ctxArg,         \* getBotReply: the resumeContext one call is rendered with
    ctxOut,         \* getBotReply: its fullSystemInstruction (<<>> before the call)
    mdText,         \* parseMessage: text
    mdOut,          \* parseMessage: what it computes (done false before the call)
    savedAuth,      \* sessionStorage: the item RA_SESSION_AUTH
    effectRan,      \* App: its mount effect has run
    crashed         \* App: a render has thrown and nothing is rendered any more

vars == <<isLoggedIn, showChatbot, resumeContext, inst, messages, input,
          loading, pending, posts, nreq, apiKey, held, ev,
          ctxArg, ctxOut, mdText, mdOut, savedAuth, effectRan, crashed>>

appVars == <<isLoggedIn, showChatbot, resumeContext, inst>>
hookVars == <<messages, input, loading>>
netVars == <<pending, posts, nreq>>
pureVars == <<ctxArg, ctxOut, mdText, mdOut>>
storeVars == <<savedAuth, effectRan, crashed>>

----------------------------------------------------------------------------
(* Bounds *)

MaxSubmits == 2     \* getBotReply calls in one behaviour
MaxInst == 2        \* Chatbot mounts in one behaviour
MaxResumeLen == 401 \* length of the longest resume text
MaxTextLen == 7     \* length of the longest text given to parseMessage
MaxWideLen == 5     \* the same for the texts over the wider alphabet

----------------------------------------------------------------------------
(* Constants of Chatbot.js *)

\* the value null / undefined where a text is expected (it is no text)
null == <<"null">>

\* the text "<em>Typing...</em>" (the source spells it with U+2026)
TYPING == <<"<em>Typing...</em>">>

FALLBACK_MESSAGE == <<"I'm sorry, I'm currently having trouble connecting to the AI service.">>

INITIAL_MESSAGE ==
    [type |-> "bot", text |-> <<"Hello! I'm your **Resume Assistant**">>, placeholder |-> FALSE]

BASE_SYSTEM_INSTRUCTION == <<"You are the 'Resume Assistant'">>

SubstringLimit == 400

ApiKeys == {"", "YOUR_API_KEY_HERE", "AIzaSy"}

----------------------------------------------------------------------------
(* Texts *)

\* the white space of trim() and of \s: blank, line feed, tab, carriage
\* return, form feed, the character VT (written as itself), and under
\* their code points NBSP, BOM, the Unicode spaces and the two separators
Whitespace ==
    {" ", "\n", "\t", "\r", "\f", "", "U+00A0", "U+FEFF", "U+1680",
     "U+2000", "U+2001", "U+2002", "U+2003", "U+2004", "U+2005", "U+2006",
     "U+2007", "U+2008", "U+2009", "U+200A", "U+2028", "U+2029", "U+202F",
     "U+205F", "U+3000"}

RECURSIVE TrimStart(_)
TrimStart(s) ==
    IF s # <<>> /\ Head(s) \in Whitespace THEN TrimStart(Tail(s)) ELSE s

RECURSIVE TrimEnd(_)
TrimEnd(s) ==
    IF s # <<>> /\ s[Len(s)] \in Whitespace
    THEN TrimEnd(SubSeq(s, 1, Len(s) - 1))
    ELSE s

\* input used as it is
NoTrim(s) == s

\* String.prototype.trim
Trim(s) == TrimEnd(TrimStart(s))

\* how Array.prototype.join renders one element: null and undefined as ""
JoinElement(t) == IF t = null THEN <<>> ELSE t

\* Array.prototype.join over texts
RECURSIVE Join(_, _)
Join(ts, sep) ==
    IF ts = <<>> THEN <<>>
    ELSE IF Len(ts) = 1 THEN JoinElement(ts[1])
    ELSE JoinElement(ts[1]) \o sep \o Join(Tail(ts), sep)

Min(a, b) == IF a < b THEN a ELSE b

\* the whole text, not cut
NoSubstring(s, n) == s

\* String.prototype.substring(0, n)
Substring0(s, n) == SubSeq(s, 1, Min(n, Len(s)))

Front(s) == SubSeq(s, 1, Len(s) - 1)

RemoveAt(s, i) == SubSeq(s, 1, i - 1) \o SubSeq(s, i + 1, Len(s))

----------------------------------------------------------------------------
(* Turns.  A turn is the object {type, text} of the source; the field      *)
(* placeholder records which object literal built it (TRUE only for the    *)
(* literal of the "typing" step of send) and is read by no operation.      *)

\* a user turn stored with the assistant's type
UserAsBot(text) == [type |-> "bot", text |-> text, placeholder |-> FALSE]

UserMessage(text) == [type |-> "user", text |-> text, placeholder |-> FALSE]

TypingMessage == [type |-> "bot", text |-> TYPING, placeholder |-> TRUE]

BotMessage(reply) == [type |-> "bot", text |-> reply, placeholder |-> FALSE]

toGeminiContent(msg) ==
    [role |-> IF msg.type = "user" THEN "user" ELSE "model",
     parts |-> <<[text |-> msg.text]>>]

NotTypingText(m) == m.text # TYPING

\* history.filter(m => m.text !== "<em>Typing...</em>")
FilterHistory(history) == SelectSeq(history, NotTypingText)

\* history.filter(...).map(toGeminiContent)
ConversationHistory(history) ==
    [i \in 1..Len(FilterHistory(history)) |-> toGeminiContent(FilterHistory(history)[i])]

----------------------------------------------------------------------------
(* getBotReply *)

\* a check that knows the empty key only
KeyEmptyOnly(key) == key = ""

\* !GEMINI_API_KEY || GEMINI_API_KEY === "YOUR_API_KEY_HERE"
KeyMissing(key) == key = "" \/ key = "YOUR_API_KEY_HERE"

\* a JS value used as a condition: null, undefined and "" are falsy
Truthy(t) == t # null /\ t # <<>>

\* context_parts of getBotReply
ContextParts(rc) ==
    <<<<"User's Email: ">> \o (IF Truthy(rc.userEmail) THEN rc.userEmail ELSE <<"N/A">>)>>
    \o (IF Truthy(rc.resumeText)
        THEN <<<<"User's Resume Content (first 400 chars): ", "\n", "\"">>
               \o Substring0(rc.resumeText, SubstringLimit) \o <<"...", "\"">>>>
        ELSE <<>>)
    \o (IF Truthy(rc.analysisSummary)
        THEN <<<<"Latest Resume Analysis Summary: ">> \o rc.analysisSummary>>
        ELSE <<>>)

\* fullSystemInstruction of getBotReply
FullSystemInstruction(rc) ==
    BASE_SYSTEM_INSTRUCTION
    \o <<"\n", "\n", "--- CURRENT USER & RESUME CONTEXT ---", "\n">>
    \o Join(ContextParts(rc), <<"\n">>)

\* payload of getBotReply
Payload(rc, history) ==
    [system_instruction |-> FullSystemInstruction(rc),
     contents |-> ConversationHistory(history)]

\* number of fetch calls one getBotReply call makes
Fetches(key) == IF KeyMissing(key) THEN 0 ELSE 1

(* What the transport does with one request.  kind "reject": fetch        *)
(* rejects; "badjson": response.json() rejects; "json": data is decoded,  *)
(* hasParts says data.candidates[0].content.parts is there (a list of     *)
(* parts, each with its text or none), hasError says data.error is there. *)
PartLists ==
    {<<>>, <<<<"H", "i">>>>, <<<<"H", "i">>, <<"t", "h", "e", "r", "e">>>>,
     <<TYPING>>, <<null>>}

ErrorMessages == {<<"quota exceeded">>}

Responses ==
    [kind : {"reject", "badjson"}, hasParts : {FALSE}, parts : {<<>>},
     hasError : {FALSE}, error : {<<>>}]
    \cup [kind : {"json"}, hasParts : {TRUE}, parts : PartLists,
          hasError : {FALSE}, error : {<<>>}]
    \cup [kind : {"json"}, hasParts : {FALSE}, parts : {<<>>},
          hasError : {TRUE}, error : ErrorMessages]
    \cup [kind : {"json"}, hasParts : {FALSE}, parts : {<<>>},
          hasError : {FALSE}, error : {<<>>}]
    \cup [kind : {"json"}, hasParts : {TRUE}, parts : {<<<<"H", "i">>>>},
          hasError : {TRUE}, error : ErrorMessages]

\* if (data?.candidates?.[0]?.content?.parts): a list is truthy, also when empty
HasCandidateParts(resp) == resp.hasParts

\* data.candidates[0].content.parts.map((p) => p.text).join(" ")
SuccessText(resp) == Join(resp.parts, <<" ">>)

\* what getBotReply resolves to once the fetch has settled with resp
ReplyOfResponse(resp) ==
    IF resp.kind # "json" THEN FALLBACK_MESSAGE
    ELSE IF HasCandidateParts(resp) THEN SuccessText(resp)
    ELSE IF resp.hasError THEN FALLBACK_MESSAGE
    ELSE FALLBACK_MESSAGE

\* what getBotReply resolves to; fetched says whether it got as far as fetch
GetBotReply(fetched, resp) ==
    IF ~fetched THEN FALLBACK_MESSAGE ELSE ReplyOfResponse(resp)

----------------------------------------------------------------------------
(* parseMessage.  Its output is a sequence of the characters it copies    *)
(* and of the tags it emits, each tag one element.                         *)

Digits == {"0", "1", "2", "3", "4", "5", "6", "7", "8", "9"}

\* the characters . of a regular expression does not match
LineTerminators == {"\n", "\r", "U+2028", "U+2029"}

\* the positions after the "*" at s[1] that can close it: a later "*" with
\* no line terminator before it
Closers(s) ==
    {j \in 2..Len(s) : s[j] = "*" /\ \A k \in 2..(j - 1) : s[k] \notin LineTerminators}

\* a greedy match: the last "*" of the line closes
LastCloser(s) == CHOOSE j \in Closers(s) : \A k \in Closers(s) : k <= j

\* (.*?) is not greedy: the first "*" that follows closes
FirstCloser(s) == CHOOSE j \in Closers(s) : \A k \in Closers(s) : j <= k

\* text.replace(/\*(.*?)\*/g, "<strong>$1</strong>")
RECURSIVE BoldReplace(_)
BoldReplace(s) ==
    IF s = <<>> THEN <<>>
    ELSE IF Head(s) # "*" \/ Closers(s) = {}
    THEN <<Head(s)>> \o BoldReplace(Tail(s))
    ELSE <<"<strong>">> \o SubSeq(s, 2, FirstCloser(s) - 1) \o <<"</strong>">>
         \o BoldReplace(SubSeq(s, FirstCloser(s) + 1, Len(s)))

\* html.split('\n')
RECURSIVE SplitLines(_)
SplitLines(s) ==
    LET breaks == {i \in 1..Len(s) : s[i] = "\n"}
        first == CHOOSE i \in breaks : \A j \in breaks : i <= j
    IN  IF breaks = {} THEN <<s>>
        ELSE <<SubSeq(s, 1, first - 1)>> \o SplitLines(SubSeq(s, first + 1, Len(s)))

\* trimmed.match(/^(\*|\d+\.)\s/)
IsListItem(trimmed) ==
    \/ Len(trimmed) >= 2 /\ trimmed[1] = "*" /\ trimmed[2] \in Whitespace
    \/ \E d \in 1..(Len(trimmed) - 2) :
         /\ \A k \in 1..d : trimmed[k] \in Digits
         /\ trimmed[d + 1] = "."
         /\ trimmed[d + 2] \in Whitespace

\* trimmed.substring(trimmed.indexOf(' ') + 1)
ListItemContent(trimmed) ==
    LET spaces == {i \in 1..Len(trimmed) : trimmed[i] = " "}
        first == CHOOSE i \in spaces : \A j \in spaces : i <= j
    IN  IF spaces = {} THEN trimmed ELSE SubSeq(trimmed, first + 1, Len(trimmed))

\* a parser that leaves the last list open
NoClosingLine(inList) == <<>>

\* if (inList) processedLines.push('</ul>')
ClosingLine(inList) == IF inList THEN <<<<"</ul>">>>> ELSE <<>>

\* lines.map(...) with its inList flag, and the push that follows it
RECURSIVE ProcessLines(_, _)
ProcessLines(lines, inList) ==
    IF lines = <<>> THEN ClosingLine(inList)
    ELSE LET line == Head(lines)
             trimmed == Trim(line)
         IN  IF IsListItem(trimmed)
             THEN <<(IF inList THEN <<>> ELSE <<"<ul>">>)
                    \o <<"<li>">> \o ListItemContent(trimmed) \o <<"</li>">>>>
                  \o ProcessLines(Tail(lines), TRUE)
             ELSE <<(IF inList THEN <<"</ul>">> ELSE <<>>) \o line>>
                  \o ProcessLines(Tail(lines), FALSE)

\* processedLines of parseMessage
ProcessedLines(text) == ProcessLines(SplitLines(BoldReplace(text)), FALSE)

parseMessage(text) == Join(ProcessedLines(text), <<"<br/>">>)

\* characters of the texts given to parseMessage: the marker, the blank, a
\* digit (plain text where no dot follows), the dot and the line break
MdChars == {"*", " ", "1", ".", "\n"}

\* the same with the tab, the carriage return and the line separator
MdCharsWide == MdChars \cup {"\t", "\r", "U+2028"}

\* the texts of n characters over chars given to parseMessage
MdTexts(chars, n) == [1..n -> chars]

----------------------------------------------------------------------------
(* State after construction: App rendered with nobody logged in, so no    *)
(* Chatbot is mounted and the hook state does not exist (empty values).   *)

EmptyContext == [userEmail |-> null, resumeText |-> <<>>, analysisSummary |-> null]

Emails == {<<"u", "@", "x">>}

\* a resume text of n characters that differ by position
ResumeOfLen(n) == [i \in 1..n |-> IF i % 3 = 0 THEN "c" ELSE IF i % 3 = 1 THEN "v" ELSE " "]

\* contexts getBotReply may be rendered with
ContextInputs ==
    [userEmail : {null, <<>>, <<"u", "@", "x">>},
     resumeText : {<<>>, <<"c", "v">>, ResumeOfLen(MaxResumeLen - 2),
                   ResumeOfLen(MaxResumeLen - 1), ResumeOfLen(MaxResumeLen)},
     analysisSummary : {null, <<>>, <<"7", "0">>}]

\* values ResumeAnalyzer hands to handleResumeDataChange
ResumeData ==
    {[userEmail |-> <<"u", "@", "x">>, resumeText |-> <<"c", "v">>, analysisSummary |-> <<"7", "0">>],
     [userEmail |-> <<"u", "@", "x">>, resumeText |-> <<>>, analysisSummary |-> null]}

\* sessionStorage without the item: getItem gives null
NoSavedAuth == [kind |-> "none", isLoggedIn |-> FALSE, userEmail |-> null]

\* JSON.stringify(newAuthData) of handleLogin
SavedLogin(email) == [kind |-> "object", isLoggedIn |-> TRUE, userEmail |-> email]

\* what the item holds when App is mounted: nothing; the empty text (falsy);
\* a text JSON.parse rejects; the text null; what handleLogin wrote; an
\* object without isLoggedIn
SavedAuths ==
    {NoSavedAuth} \cup {SavedLogin(e) : e \in Emails}
    \cup {[kind |-> "object", isLoggedIn |-> FALSE, userEmail |-> e] : e \in Emails}
    \cup {[kind |-> k, isLoggedIn |-> FALSE, userEmail |-> null] : k \in {"empty", "invalid", "null"}}

\* values the input element hands to setInput
InputValues == {<<>>, <<"\t", " ">>, <<"a">>, <<"\t", "a", " ">>, TYPING}

\* what one rendered version of send has captured
Closure ==
    [inst |-> inst, input |-> input, loading |-> loading, messages |-> messages,
     resumeContext |-> resumeContext]

NoCall == [op |-> "none", via |-> "none", accepted |-> FALSE, resp |-> <<>>]

Call(op, via, accepted) == [op |-> op, via |-> via, accepted |-> accepted, resp |-> <<>>]

\* parseMessage not called yet
NoRender == [done |-> FALSE, bold |-> <<>>, lines |-> <<>>, html |-> <<>>]

\* no separate call of getBotReply's context step or of parseMessage
PureIdle ==
    /\ ctxArg = EmptyContext
    /\ ctxOut = <<>>
    /\ mdText = <<>>
    /\ mdOut = NoRender

InitChat ==
    /\ isLoggedIn = FALSE
    /\ showChatbot = FALSE
    /\ resumeContext = EmptyContext
    /\ inst = 0
    /\ messages = <<>>
    /\ input = <<>>
    /\ loading = FALSE
    /\ pending = <<>>
    /\ posts = 0
    /\ nreq = 0
    /\ apiKey \in ApiKeys
    /\ held = Closure
    /\ ev = NoCall
    /\ effectRan = FALSE
    /\ crashed = FALSE

Init == InitChat /\ savedAuth \in SavedAuths /\ PureIdle

----------------------------------------------------------------------------
(* App *)

\* a conversation that starts empty
NoInitialMessage == <<>>

\* useState([INITIAL_MESSAGE])
InitialMessages == <<INITIAL_MESSAGE>>

\* the mount effect of App.  An item that is missing or empty is left
\* alone; one that does not parse is removed; one that parses to null makes
\* the render that follows throw (authData is null, and the updater reads
\* parsedAuth.userEmail outside the try), the item stays; any other is taken
\* over, and a Chatbot is mounted by the render that follows when it says
\* logged in
restoreSession ==
    /\ ~effectRan
    /\ effectRan' = TRUE
    /\ ev' = Call("mount", "none", TRUE)
    /\ savedAuth' = IF savedAuth.kind = "invalid" THEN NoSavedAuth ELSE savedAuth
    /\ crashed' = (savedAuth.kind = "null")
    /\ IF savedAuth.kind = "object"
       THEN /\ isLoggedIn' = savedAuth.isLoggedIn
            /\ resumeContext' = [resumeContext EXCEPT !.userEmail = savedAuth.userEmail]
            /\ IF savedAuth.isLoggedIn
               THEN /\ inst' = inst + 1
                    /\ messages' = InitialMessages
                    /\ input' = <<>>
                    /\ loading' = FALSE
               ELSE UNCHANGED <<inst, hookVars>>
       ELSE UNCHANGED <<isLoggedIn, resumeContext, inst, hookVars>>
    /\ UNCHANGED <<showChatbot, netVars, apiKey, pureVars, held>>

\* handleLogin; called while logged out, the Chatbot is mounted by the
\* render that follows; called while logged in, it stays mounted
handleLogin(email) ==
    /\ effectRan /\ ~crashed
    /\ isLoggedIn \/ inst < MaxInst
    /\ isLoggedIn' = TRUE
    /\ savedAuth' = SavedLogin(email)
    /\ resumeContext' = [resumeContext EXCEPT !.userEmail = email]
    /\ IF isLoggedIn
       THEN UNCHANGED <<inst, hookVars>>
       ELSE /\ inst' = inst + 1
            /\ messages' = InitialMessages
            /\ input' = <<>>
            /\ loading' = FALSE
    /\ ev' = Call("login", "none", TRUE)
    /\ UNCHANGED <<showChatbot, netVars, apiKey, effectRan, crashed, pureVars, held>>

\* handleLogout; the Chatbot is unmounted by the render that follows
handleLogout ==
    /\ isLoggedIn
    /\ isLoggedIn' = FALSE
    /\ savedAuth' = NoSavedAuth
    /\ resumeContext' = EmptyContext
    /\ messages' = <<>>
    /\ input' = <<>>
    /\ loading' = FALSE
    /\ ev' = Call("logout", "none", TRUE)
    /\ UNCHANGED <<showChatbot, inst, netVars, apiKey, effectRan, crashed, pureVars, held>>

\* handleResumeDataChange
handleResumeDataChange(data) ==
    /\ isLoggedIn
    /\ resumeContext' = data
    /\ ev' = Call("data", "none", TRUE)
    /\ UNCHANGED <<isLoggedIn, showChatbot, inst, hookVars, netVars, apiKey, storeVars, pureVars, held>>

\* a FAB whose panel is rendered only while open: toggling remounts it
ToggleRemounts ==
    /\ isLoggedIn
    /\ showChatbot' = ~showChatbot
    /\ messages' = InitialMessages
    /\ input' = <<>>
    /\ loading' = FALSE
    /\ ev' = Call("toggle", "none", TRUE)
    /\ UNCHANGED <<isLoggedIn, resumeContext, inst, netVars, apiKey, storeVars, pureVars, held>>

\* the FAB's onClick
ToggleChatbot ==
    /\ isLoggedIn
    /\ showChatbot' = ~showChatbot
    /\ ev' = Call("toggle", "none", TRUE)
    /\ UNCHANGED <<isLoggedIn, resumeContext, inst, hookVars, netVars, apiKey, storeVars, pureVars, held>>

\* the Chatbot's onClose
onClose ==
    /\ isLoggedIn
    /\ showChatbot' = FALSE
    /\ ev' = Call("close", "none", TRUE)
    /\ UNCHANGED <<isLoggedIn, resumeContext, inst, hookVars, netVars, apiKey, storeVars, pureVars, held>>

----------------------------------------------------------------------------
(* useChatLogic *)

setInput(v) ==
    /\ isLoggedIn
    /\ input' = v
    /\ ev' = Call("setInput", "none", TRUE)
    /\ UNCHANGED <<appVars, messages, loading, netVars, apiKey, storeVars, pureVars, held>>

\* a guard that forgets loading
GuardTextOnly(text, isLoading) == text # <<>>

\* a guard that returns only when both conditions hold
GuardBoth(text, isLoading) == ~(text = <<>> /\ isLoading)

\* if (!text || loading) return, negated
SendGuard(text, isLoading) == text # <<>> /\ ~isLoading

\* a history that starts over with the new message
OnlyNewMessage(msgs, text) == <<UserMessage(text)>>

\* fullHistoryWithNewMessage
FullHistoryWithNewMessage(msgs, text) == Append(msgs, UserMessage(text))

\* messages without the "typing" updater
NoTyping(full) == full

\* messages once setMessages(full) and the "typing" updater have run
WithTyping(full) == Append(full, TypingMessage)

\* an updater that appends without removing the last turn
AppendReply(prev, reply) == Append(prev, BotMessage(reply))

\* an updater that removes the last two turns
SliceTwo(prev, reply) == Append(Front(Front(prev)), BotMessage(reply))

\* the updater of step 4 applied to prev
ReplaceLast(prev, reply) == Append(Front(prev), BotMessage(reply))

\* the getBotReply call of a send, up to its await of fetch
Request(c, full) ==
    [inst |-> c.inst,
     fetched |-> Fetches(apiKey) > 0,
     payload |-> IF Fetches(apiKey) > 0
                 THEN Payload(c.resumeContext, full)
                 ELSE [system_instruction |-> <<>>, contents |-> <<>>]]

\* send as rendered with the values c, up to its await
SendThrough(c, via) ==
    LET text == Trim(c.input)
        full == FullHistoryWithNewMessage(c.messages, text)
    IN  IF SendGuard(text, c.loading)
        THEN /\ nreq < MaxSubmits
             /\ messages' = WithTyping(full)
             /\ input' = <<>>
             /\ loading' = TRUE
             /\ pending' = Append(pending, Request(c, full))
             /\ posts' = posts + Fetches(apiKey)
             /\ nreq' = nreq + 1
             /\ ev' = Call("send", via, TRUE)
             /\ UNCHANGED <<appVars, apiKey, storeVars, pureVars, held>>
        ELSE /\ ev' = Call("send", via, FALSE)
             /\ UNCHANGED <<appVars, hookVars, netVars, apiKey, storeVars, pureVars, held>>

\* send of the current render
send ==
    /\ isLoggedIn
    /\ SendThrough(Closure, "current")

\* updaters that reach whichever Chatbot is mounted
AnyMounted(r) == isLoggedIn

\* setMessages and setLoading of a send reach the hook state of the mount
\* that rendered it, and nothing once that mount is gone
Mounted(r) == isLoggedIn /\ r.inst = inst

\* the rest of send, run when the getBotReply call pending[i] settles; its
\* two updates (replace the last turn, loading false) are one step
Complete(i, resp) ==
    LET r == pending[i]
        reply == GetBotReply(r.fetched, resp)
        mounted == Mounted(r)
    IN  /\ pending' = RemoveAt(pending, i)
        /\ IF mounted
           THEN /\ messages' = ReplaceLast(messages, reply)
                /\ loading' = FALSE
           ELSE UNCHANGED <<messages, loading>>
        /\ ev' = [op |-> "complete", via |-> "none", accepted |-> mounted,
                  resp |-> IF r.fetched THEN <<resp>> ELSE <<>>]
        /\ UNCHANGED <<appVars, input, posts, nreq, apiKey, storeVars, pureVars, held>>

\* a getBotReply call settles: at once when it made no fetch, else with
\* whatever the transport delivers
Settle ==
    \E i \in 1..Len(pending) :
        IF pending[i].fetched
        THEN \E resp \in Responses : Complete(i, resp)
        ELSE Complete(i, CHOOSE resp \in Responses : resp.kind = "reject")

\* a caller keeps the send of the current render
Retain ==
    /\ isLoggedIn
    /\ held' = Closure
    /\ ev' = Call("retain", "none", TRUE)
    /\ UNCHANGED <<appVars, hookVars, netVars, apiKey, storeVars, pureVars>>

\* the caller calls the send it kept
sendHeld ==
    /\ isLoggedIn
    /\ held.inst = inst
    /\ SendThrough(held, "held")

Next ==
    \/ restoreSession
    \/ \E email \in Emails : handleLogin(email)
    \/ handleLogout
    \/ \E data \in ResumeData : handleResumeDataChange(data)
    \/ ToggleChatbot
    \/ onClose
    \/ \E v \in InputValues : setInput(v)
    \/ send
    \/ Settle

Spec == Init /\ [][Next]_vars

\* every getBotReply call settles: fetch resolves or rejects
FairSpec == Spec /\ WF_vars(Settle)

NextStale ==
    \/ restoreSession
    \/ \E email \in Emails : handleLogin(email)
    \/ \E v \in InputValues : setInput(v)
    \/ send
    \/ Settle
    \/ Retain
    \/ sendHeld

\* one mounted Chatbot whose caller may call a send rendered earlier
SpecStale == Init /\ [][NextStale]_vars

\* the context step of one getBotReply call
BuildInstruction ==
    /\ ctxOut = <<>>
    /\ ctxOut' = FullSystemInstruction(ctxArg)
    /\ UNCHANGED <<appVars, hookVars, netVars, apiKey, storeVars, held, ev, ctxArg, mdText, mdOut>>

InitContext ==
    /\ InitChat
    /\ savedAuth = NoSavedAuth
    /\ ctxArg \in ContextInputs
    /\ ctxOut = <<>>
    /\ mdText = <<>>
    /\ mdOut = NoRender

\* getBotReply's system instruction as a function of the context
SpecContext == InitContext /\ [][BuildInstruction]_vars

\* one call of parseMessage, as the render of a turn makes it
Render ==
    /\ ~mdOut.done
    /\ mdOut' = [done |-> TRUE,
                 bold |-> BoldReplace(mdText),
                 lines |-> ProcessedLines(mdText),
                 html |-> parseMessage(mdText)]
    /\ UNCHANGED <<appVars, hookVars, netVars, apiKey, storeVars, held, ev, ctxArg, ctxOut, mdText>>

InitRender ==
    /\ InitChat
    /\ savedAuth = NoSavedAuth
    /\ apiKey = "AIzaSy"
    /\ ctxArg = EmptyContext
    /\ ctxOut = <<>>
    /\ \/ \E n \in 0..MaxTextLen : mdText \in MdTexts(MdChars, n)
       \/ \E n \in 0..MaxWideLen : mdText \in MdTexts(MdCharsWide, n)
    /\ mdOut = NoRender

\* parseMessage as a function of the text
SpecRender == InitRender /\ [][Render]_vars

----------------------------------------------------------------------------
(* Vocabulary of the properties *)

Last(s) == s[Len(s)]

Placeholders(msgs) == {i \in 1..Len(msgs) : msgs[i].placeholder}

\* the outstanding getBotReply calls of the mounted Chatbot
OwnPending == {i \in 1..Len(pending) : isLoggedIn /\ pending[i].inst = inst}

\* the text is empty or made of whitespace only
Blank(s) ==
    \A i \in 1..Len(s) :
        s[i] \in {" ", "\n", "\t", "\r", "\f", "", "U+00A0", "U+FEFF", "U+1680",
                  "U+2000", "U+2001", "U+2002", "U+2003", "U+2004", "U+2005",
                  "U+2006", "U+2007", "U+2008", "U+2009", "U+200A", "U+2028",
                  "U+2029", "U+202F", "U+205F", "U+3000"}

\* the text without its leading and trailing whitespace
Trimmed(s) ==
    IF Blank(s) THEN <<>>
    ELSE LET ink == {i \in 1..Len(s) : ~Blank(<<s[i]>>)}
             first == CHOOSE i \in ink : \A j \in ink : i <= j
             last == CHOOSE i \in ink : \A j \in ink : j <= i
         IN  SubSeq(s, first, last)

SendStep == ev'.op = "send"

AcceptStep == ev'.op = "send" /\ ev'.accepted /\ nreq' = nreq + 1

\* a completion whose updaters reached the mounted Chatbot
CompleteStep == ev'.op = "complete" /\ ev'.accepted /\ Len(pending') < Len(pending)

----------------------------------------------------------------------------
(* C1: a send with non-empty trimmed input made while nothing is           *)
(* outstanding adds one user turn with the trimmed text; when its request  *)
(* settles the turn after it becomes one assistant turn, loading is false  *)
(* and no placeholder is left; and the request does settle.                *)
C1_SubmitAddsUserThenAssistant ==
    /\ [][(SendStep /\ ~Blank(input) /\ ~loading)
            => /\ AcceptStep
               /\ Front(messages') = Append(messages, UserMessage(Trimmed(input)))]_vars
    /\ [][CompleteStep
            => /\ Len(messages') = Len(messages)
               /\ Front(messages') = Front(messages)
               /\ Last(Front(messages')).type = "user"
               /\ Last(messages').type = "bot"
               /\ Placeholders(messages') = {}
               /\ ~loading']_vars
    /\ (isLoggedIn /\ loading)
          ~> (~isLoggedIn \/ (ev.op = "complete" /\ ev.accepted /\ ~loading))

C1_Witness ==
    /\ ev.op = "complete" /\ ev.accepted /\ ~loading
    /\ Len(messages) = 3
    /\ messages[2] = UserMessage(<<"a">>)
    /\ messages[3].type = "bot"

(* request starts only in a send that is accepted while none is            *)
(* outstanding: a dropped send starts none, then or later.                 *)
C3_Serialized ==
    /\ [](Cardinality(OwnPending) <= 1)
    /\ [][(nreq' # nreq \/ posts' # posts \/ Len(pending') > Len(pending))
            => /\ AcceptStep
               /\ OwnPending = {}
               /\ Len(pending') = Len(pending) + 1
               /\ posts' <= posts + 1]_vars

C3_Witness ==
    /\ nreq = 2
    /\ Cardinality(OwnPending) = 1
    /\ Len(messages) = 5
    /\ inst = 1

(* C4: a send whose input is empty or only whitespace changes nothing.    *)
C4_BlankSendNoOp ==
    [][(SendStep /\ Blank(input))
        => UNCHANGED <<messages, loading, input, pending, posts, nreq>>]_vars

C4_Witness ==
    /\ ev.op = "send" /\ ~ev.accepted
    /\ ~loading
    /\ input = <<"\t", " ">>

(* C5: the conversation holds at most one placeholder turn, and it is the *)
(* last turn.                                                              *)
C5_OnePlaceholderLast ==
    /\ Cardinality(Placeholders(messages)) <= 1
    /\ \A i \in Placeholders(messages) : i = Len(messages)

C5_Witness ==
    /\ loading
    /\ Len(messages) = 5
    /\ Placeholders(messages) = {5}
    /\ messages[3].text = TYPING

(* The outcomes of the transport, in the order the taxonomy lists them:    *)
(* Success needs a candidate with at least one text segment; an error      *)
(* payload makes a ServiceError; what is left is a MalformedResponse.      *)
WellFormedCandidate(r) ==
    r.kind = "json" /\ r.hasParts /\ \E i \in 1..Len(r.parts) : r.parts[i] # null

ServiceError(r) == r.kind = "json" /\ ~WellFormedCandidate(r) /\ r.hasError

MalformedResponse(r) == r.kind = "json" /\ ~WellFormedCandidate(r) /\ ~r.hasError

TransportFailure(r) == r.kind # "json"

\* the completion was one of the four failure kinds (no response: no fetch)
FailureStep ==
    \/ ev'.resp = <<>>
    \/ /\ ev'.resp # <<>>
       /\ \/ ServiceError(ev'.resp[1])
          \/ MalformedResponse(ev'.resp[1])
          \/ TransportFailure(ev'.resp[1])

(* C6: whichever of the four failure kinds occurs, the assistant turn is  *)
(* FALLBACK_MESSAGE and the send completes with loading false.             *)
C6_FailuresGiveFallback ==
    [][(CompleteStep /\ FailureStep)
        => /\ Last(messages') = BotMessage(FALLBACK_MESSAGE)
           /\ ~loading']_vars

(* C7: the reply is the segments' texts joined by one space when the      *)
(* response has a candidate with at least one text segment, and it is      *)
(* FALLBACK_MESSAGE for every response with neither such a candidate nor   *)
(* an error payload (an empty segment list included).                      *)
C7_SuccessNeedsTextSegment ==
    [][(CompleteStep /\ ev'.resp # <<>>)
        => /\ WellFormedCandidate(ev'.resp[1])
                => Last(messages').text = Join(ev'.resp[1].parts, <<" ">>)
           /\ ev'.resp[1].parts = <<<<"H", "i">>, <<"t", "h", "e", "r", "e">>>>
                => Last(messages').text = <<"H", "i", " ", "t", "h", "e", "r", "e">>
           /\ MalformedResponse(ev'.resp[1])
                => Last(messages').text = FALLBACK_MESSAGE]_vars

(* C8: the conversation of the session that follows a logout is exactly   *)
(* the greeting, and stays so until that session's first accepted send,    *)
(* also when a request of the session before is still outstanding.         *)
C8_LogoutResetsConversation ==
    /\ [][(~isLoggedIn /\ isLoggedIn') => messages' = <<INITIAL_MESSAGE>>]_vars
    /\ [][(isLoggedIn /\ isLoggedIn' /\ messages = <<INITIAL_MESSAGE>> /\ ~AcceptStep)
            => messages' = <<INITIAL_MESSAGE>>]_vars

C8_Witness ==
    /\ isLoggedIn /\ inst = 2
    /\ ev.op = "complete" /\ ~ev.accepted
    /\ messages = <<INITIAL_MESSAGE>>
    /\ ~loading

\* the turns of a history in the transport's shape, none left out
AllContents(history) == [i \in 1..Len(history) |-> toGeminiContent(history[i])]

(* C9: the contents sent for an accepted submission are the conversation  *)
(* as it stood plus the new user turn, in order, each turn mapped to its   *)
(* role, no genuine turn left out whatever its text.                       *)
C9_ContentsAreWholeHistory ==
    [][(AcceptStep /\ posts' > posts)
        => Last(pending').payload.contents
             = AllContents(Append(messages, UserMessage(Trimmed(input))))]_vars

(* C10: an accepted submission makes one fetch when the key is configured *)
(* and none otherwise; no other step makes one; a completion makes none    *)
(* and after a failed attempt the turn is FALLBACK_MESSAGE.                *)
C10_OneRequestNoRetry ==
    /\ [][posts' = posts + (IF AcceptStep /\ ~KeyMissing(apiKey) THEN 1 ELSE 0)]_vars
    /\ [][(ev'.op = "complete" /\ Len(pending') < Len(pending))
            => /\ posts' = posts /\ nreq' = nreq
               /\ Len(pending') = Len(pending) - 1]_vars
    /\ [][(CompleteStep /\ ev'.resp # <<>>
             /\ (\/ ServiceError(ev'.resp[1])
                 \/ MalformedResponse(ev'.resp[1])
                 \/ TransportFailure(ev'.resp[1])))
            => Last(messages').text = FALLBACK_MESSAGE /\ ~loading']_vars

(* C11: with the key empty or the placeholder key, an accepted send makes *)
(* no fetch and builds no payload (neither resumeContext nor the history   *)
(* is read), and it completes with the user turn followed by the           *)
(* FALLBACK_MESSAGE turn.                                                  *)
C11_MissingKeyShortCircuits ==
    /\ [][(AcceptStep /\ apiKey \in {"", "YOUR_API_KEY_HERE"})
            => /\ posts' = posts
               /\ ~Last(pending').fetched
               /\ Last(pending').payload = [system_instruction |-> <<>>, contents |-> <<>>]]_vars
    /\ [][(CompleteStep /\ apiKey \in {"", "YOUR_API_KEY_HERE"})
            => /\ posts' = posts
               /\ Last(messages') = BotMessage(FALLBACK_MESSAGE)
               /\ Last(Front(messages')).type = "user"
               /\ Len(messages') = Len(messages)
               /\ ~loading']_vars

C11_Witness ==
    /\ apiKey = "YOUR_API_KEY_HERE"
    /\ ev.op = "complete" /\ ev.accepted
    /\ posts = 0 /\ nreq = 1
    /\ Len(messages) = 3
    /\ messages[3] = BotMessage(FALLBACK_MESSAGE)

\* the step stays within one mounted Chatbot
SameMount == isLoggedIn /\ isLoggedIn' /\ inst' = inst

(* C12: within one mount the conversation only grows at its end: the      *)
(* first turn is INITIAL_MESSAGE, every turn that is no placeholder keeps  *)
(* its index, role and text, and the only turn ever replaced is a trailing *)
(* placeholder, replaced in place by an assistant turn.                    *)
C12_AppendOnly ==
    /\ [](isLoggedIn => (messages # <<>> /\ messages[1] = INITIAL_MESSAGE))
    /\ [][SameMount
            => /\ Len(messages') >= Len(messages)
               /\ \A i \in 1..Len(messages) :
                    IF messages[i].placeholder
                    THEN /\ i = Len(messages)
                         /\ \/ messages'[i] = messages[i]
                            \/ /\ Len(messages') = Len(messages)
                               /\ messages'[i].type = "bot"
                               /\ ~messages'[i].placeholder
                    ELSE messages'[i] = messages[i]]_vars

C12_Witness ==
    /\ ev.op = "complete" /\ ev.accepted
    /\ Len(messages) = 5
    /\ messages[2].type = "user" /\ messages[4].type = "user"
    /\ ~loading

(* C17: while a Chatbot is mounted, loading is true exactly when the last *)
(* turn of the conversation is the placeholder.                            *)
C17_LoadingIffPlaceholderLast ==
    isLoggedIn => (loading <=> (messages # <<>> /\ Last(messages).placeholder))

C17_Witness ==
    /\ ev.op = "send" /\ ev.accepted
    /\ loading
    /\ Len(messages) = 3
    /\ Last(messages).placeholder

(* C18: when idle the conversation has odd length and alternates          *)
(* assistant, user, assistant, ... starting with the greeting.             *)
C18_IdleAlternates ==
    (isLoggedIn /\ ~loading)
        => /\ Len(messages) % 2 = 1
           /\ \A i \in 1..Len(messages) :
                messages[i].type = (IF i % 2 = 1 THEN "bot" ELSE "user")

C18_Witness ==
    /\ isLoggedIn /\ ~loading
    /\ Len(messages) = 5
    /\ messages[2].type = "user" /\ messages[4].type = "user"
    /\ messages[3].type = "bot" /\ messages[5].type = "bot"

\* the step settles a request made by a mount other than the mounted one
OldRequestSettles ==
    /\ ev'.op = "complete"
    /\ Len(pending') = Len(pending) - 1
    /\ \A i \in 1..Len(pending) :
         pending' = RemoveAt(pending, i) => pending[i].inst # inst

\* the step settles a request made by the mounted Chatbot
OwnRequestSettles ==
    /\ ev'.op = "complete"
    /\ isLoggedIn
    /\ Len(pending') = Len(pending) - 1
    /\ \A i \in 1..Len(pending) :
         pending' = RemoveAt(pending, i) => pending[i].inst = inst

(* C19: when a request issued before a logout settles in a later session, *)
(* the conversation, the input and loading of that session are unchanged.  *)
C19_OldReplyNotAdded ==
    [][(isLoggedIn /\ OldRequestSettles) => UNCHANGED <<messages, input, loading>>]_vars

C19_Witness ==
    /\ isLoggedIn /\ inst = 2
    /\ ev.op = "complete" /\ ~ev.accepted
    /\ loading
    /\ Len(messages) = 3
    /\ Len(pending) = 1

(* C20: opening or closing the panel changes neither conversation, input  *)
(* nor loading, and a request that settles while the panel is closed still *)
(* replaces its placeholder by the assistant turn.                         *)
C20_PanelToggleKeepsChat ==
    /\ [][(showChatbot' # showChatbot) => UNCHANGED <<messages, input, loading, pending>>]_vars
    /\ [][(ev'.op \in {"toggle", "close"}) => UNCHANGED <<messages, input, loading, pending>>]_vars
    /\ [][(OwnRequestSettles /\ ~showChatbot)
            => /\ Last(messages).placeholder
               /\ Front(messages') = Front(messages)
               /\ Len(messages') = Len(messages)
               /\ Last(messages').type = "bot" /\ ~Last(messages').placeholder
               /\ ~loading']_vars

C20_Witness ==
    /\ ~showChatbot
    /\ ev.op = "complete" /\ ev.accepted
    /\ Len(messages) = 3
    /\ ~loading
    /\ messages[3].text = <<"H", "i">>

\* the system instruction the claim describes for the context rc
ExpectedInstruction(rc) ==
    LET email == IF rc.userEmail = null \/ rc.userEmail = <<>> THEN <<"N/A">> ELSE rc.userEmail
        n == IF Len(rc.resumeText) < 400 THEN Len(rc.resumeText) ELSE 400
        resume == IF rc.resumeText = <<>> THEN <<>>
                  ELSE <<"\n", "User's Resume Content (first 400 chars): ", "\n", "\"">>
                       \o [i \in 1..n |-> rc.resumeText[i]] \o <<"...", "\"">>
        summary == IF rc.analysisSummary = null \/ rc.analysisSummary = <<>> THEN <<>>
                   ELSE <<"\n", "Latest Resume Analysis Summary: ">> \o rc.analysisSummary
    IN  BASE_SYSTEM_INSTRUCTION
        \o <<"\n", "\n", "--- CURRENT USER & RESUME CONTEXT ---", "\n">>
        \o <<"User's Email: ">> \o email \o resume \o summary

(* C14: the system instruction is the policy text followed by the        *)
(* context block: the email or N/A, the resume section exactly when        *)
(* resumeText is non-empty with its first min(400, length) characters, the *)
(* summary exactly when there is one; nothing but resumeContext enters.    *)
C14_SystemInstruction ==
    ctxOut # <<>> => ctxOut = ExpectedInstruction(ctxArg)

C14_Witness ==
    /\ ctxOut # <<>>
    /\ Len(ctxArg.resumeText) > 400
    /\ ctxArg.userEmail = null
    /\ ctxArg.analysisSummary # null /\ ctxArg.analysisSummary # <<>>

\* number of the elements among the first k of s that are the tag t
CountUpTo(s, t, k) == Cardinality({i \in 1..k : s[i] = t})

\* number of the elements of s that are the tag t
Count(s, t) == CountUpTo(s, t, Len(s))

\* lists open after the first k elements of the output s
OpenLists(s, k) == CountUpTo(s, "<ul>", k) - CountUpTo(s, "</ul>", k)

\* the lines the list step scans: those of the text after the bold step
ScannedLines == SplitLines(mdOut.bold)

\* a list line: "*" or digits and a dot, then whitespace, after the
\* leading blanks; what follows the marker is not blank
ListLine(l) ==
    LET t == Trimmed(l)
    IN  \/ Len(t) >= 3 /\ t[1] = "*" /\ Blank(<<t[2]>>)
        \/ \E d \in 1..Len(t) :
             /\ Len(t) >= d + 3
             /\ \A k \in 1..d : t[k] \in {"0", "1", "2", "3", "4", "5", "6", "7", "8", "9"}
             /\ t[d + 1] = "." /\ Blank(<<t[d + 2]>>)

\* line i of the scanned lines is a list line
InRun(i) == i \in 1..Len(ScannedLines) /\ ListLine(ScannedLines[i])

(* C13: list handling is a two-state machine over the lines: a run of     *)
(* consecutive list lines gets one <ul> at its first line, one <li> per    *)
(* line, and one </ul> before the next line that is no list line or at the *)
(* end of the text; so in every output <ul> and </ul> are balanced, never  *)
(* nested, and every <li> lies in an open list.                            *)
C13_ListStateMachine ==
    mdOut.done =>
        LET out == mdOut.lines
            html == mdOut.html
            n == Len(ScannedLines)
            run == [i \in 0..n |-> InRun(i)]
            open == [k \in 0..Len(html) |-> OpenLists(html, k)]
        IN  /\ Len(out) = n + (IF run[n] THEN 1 ELSE 0)
            /\ run[n] => out[n + 1] = <<"</ul>">>
            /\ \A i \in 1..n :
                 /\ Count(out[i], "<ul>") = (IF run[i] /\ ~run[i - 1] THEN 1 ELSE 0)
                 /\ Count(out[i], "<li>") = (IF run[i] THEN 1 ELSE 0)
                 /\ Count(out[i], "</li>") = (IF run[i] THEN 1 ELSE 0)
                 /\ Count(out[i], "</ul>") = (IF ~run[i] /\ run[i - 1] THEN 1 ELSE 0)
                 /\ run[i] /\ ~run[i - 1] => out[i][1] = "<ul>" /\ out[i][2] = "<li>"
                 /\ run[i] /\ run[i - 1] => out[i][1] = "<li>"
                 /\ run[i] => Last(out[i]) = "</li>"
                 /\ ~run[i] /\ run[i - 1] => out[i] = <<"</ul>">> \o ScannedLines[i]
                 /\ ~run[i] /\ ~run[i - 1] => out[i] = ScannedLines[i]
            /\ open[Len(html)] = 0
            /\ \A k \in 1..Len(html) :
                 /\ open[k] \in {0, 1}
                 /\ html[k] = "<li>" => open[k] = 1

\* a run of two list lines, closed at the end of the text
C13_Witness ==
    /\ mdOut.done
    /\ InRun(1) /\ InRun(2) /\ Len(ScannedLines) = 2
    /\ Count(mdOut.html, "<ul>") = 1
    /\ Count(mdOut.html, "<li>") = 2
    /\ Last(mdOut.html) = "</ul>"

\* first and last position of the line of the text s that holds position k
LineFirst(s, k) ==
    LET before == {j \in 1..(k - 1) : s[j] \in {"\n", "\r", "U+2028", "U+2029"}}
    IN  IF before = {} THEN 1 ELSE (CHOOSE j \in before : \A b \in before : b <= j) + 1

LineLast(s, k) ==
    LET after == {j \in (k + 1)..Len(s) : s[j] \in {"\n", "\r", "U+2028", "U+2029"}}
    IN  IF after = {} THEN Len(s) ELSE (CHOOSE j \in after : \A a \in after : j <= a) - 1

\* asterisks of the text s at the positions lo..hi
Asterisks(s, lo, hi) == Cardinality({j \in lo..hi : s[j] = "*"})

\* what the claim puts at position k of the text s: the asterisks of a line
\* are paired in order, the odd ones open, the even ones close, an odd one
\* that is the last of its line stays, everything else is kept
PairedLeftToRight(s, k) ==
    LET m == Asterisks(s, LineFirst(s, k), k)
        n == Asterisks(s, LineFirst(s, k), LineLast(s, k))
    IN  IF s[k] # "*" THEN s[k]
        ELSE IF m % 2 = 0 THEN "</strong>"
        ELSE IF m < n THEN "<strong>"
        ELSE "*"

(* C15: bold replacement pairs the asterisks of each line left to right,  *)
(* never across a line break: of 2k asterisks all are consumed into k      *)
(* spans, of 2k+1 only the last stays literal, and the text between the    *)
(* asterisks of a pair is kept unchanged inside the span.                  *)
C15_BoldPairsPerLine ==
    mdOut.done =>
        /\ Len(mdOut.bold) = Len(mdText)
        /\ \A k \in 1..Len(mdText) : mdOut.bold[k] = PairedLeftToRight(mdText, k)

\* two lines: a span with text inside on the first, a lone asterisk that
\* stays on the second
C15_Witness ==
    /\ mdOut.done
    /\ Count(mdText, "\n") = 1
    /\ Count(mdText, "*") = 3
    /\ Count(mdOut.bold, "<strong>") = 1
    /\ Count(mdOut.bold, "</strong>") = 1
    /\ Last(mdOut.bold) = "*"
    /\ \E k \in 1..(Len(mdOut.bold) - 2) :
         mdOut.bold[k] = "<strong>" /\ mdOut.bold[k + 1] = "1" /\ mdOut.bold[k + 2] = "</strong>"

\* the lines of the text given to parseMessage
InputLines == SplitLines(mdText)

\* line i of the text begins with a bullet marker and a space
BulletLine(i) ==
    /\ Len(InputLines[i]) >= 2
    /\ InputLines[i][1] = "*"
    /\ InputLines[i][2] = " "

\* the processed line l is a list item
IsItem(l) ==
    /\ Len(l) >= 2
    /\ l[1] = "<li>" \/ (Len(l) >= 3 /\ l[1] = "<ul>" /\ l[2] = "<li>")
    /\ Last(l) = "</li>"

\* what a processed line that is a list item holds between <li> and </li>
ItemContent(l) == SubSeq(l, (IF l[1] = "<ul>" THEN 3 ELSE 2), Len(l) - 1)

\* the characters of the output s: its bold tags put aside
CharsOf(s) == SelectSeq(s, LAMBDA c : c \notin {"<strong>", "</strong>"})

(* C16: every line of the text that begins with "* " is rendered as a     *)
(* list item whose content is the rest of the line after the first space,  *)
(* whatever else the line holds: the bold replacement never consumes the   *)
(* bullet marker of a line.                                                *)
C16_BulletAlwaysItem ==
    mdOut.done =>
        \A i \in 1..Len(InputLines) :
            BulletLine(i) /\ ~Blank(Tail(InputLines[i])) =>
                /\ IsItem(mdOut.lines[i])
                /\ CharsOf(ItemContent(mdOut.lines[i]))
                     = SelectSeq(Tail(Tail(Trimmed(InputLines[i]))), LAMBDA c : c # "*")

====
